---- MODULE Spec2Model ----
(***************************************************************************)
(* Statement workflow of the personal finance tracker: the duplicate and   *)
(* conflict detector (src/services/duplicate_detector.py), the balance and *)
(* upload repositories and the portfolio router's handlers that write      *)
(* balances.                                                               *)
(*                                                                         *)
(* Amounts are integers in cents.  A date is a record [month, day]; the    *)
(* month field stands for the (year, month) pair, so "same calendar month" *)
(* is equality of the month field.  A Python Optional is a sequence of     *)
(* length 0 (None) or 1.                                                   *)
(***************************************************************************)
EXTENDS Integers, Sequences, FiniteSets, TLC

\* ------------------------------------------------------------------ bounds
MaxStore == 2
MaxUploads == 2
MaxReq == 2

\* ----------------------------------------------------------------- domains
Accounts == {1, 2}
Months == {1, 2}
Days == {1, 2}
Dates == [month : Months, day : Days]
\* cents: 0 / 1 are within one cent of each other; 10000 / 10001 within one
\* cent; 10100 is exactly 1% off 10000, 10400 is 4% off, 12000 is 20% off,
\* 30000 is three times 10000
Amounts == {0, 1, 10000, 10001, 10100, 10400, 12000, 30000}
Filenames == {"a.pdf", "b.pdf"}
BankNames == {"Wells Fargo Checking", "Wells Fargo Savings"}

None == << >>
Some(v) == << v >>
IsNone(o) == Len(o) = 0
Val(o) == o[1]

Abs(x) == IF x < 0 THEN -x ELSE x

\* ------------------------------------------------------------------- state
VARIABLES
    balances,      \* portfolio_balances table: sequence of rows, id = index
    bankBalances,  \* bank_balances table: sequence of rows, id = index
    uploads,       \* statement_uploads table: sequence of rows, id = index
    uniqueIndex,   \* does the database carry the unique index on portfolio balances
    filenameIndex, \* does it carry the unique index on statement upload filenames
    req,           \* quick-save requests in flight, one record per slot
    last,          \* response of the handler that finished last
    call,          \* last duplicate check that was called (its arguments)
    result,        \* what that call returned (or that it raised)
    input          \* the file or text a processing function is applied to

vars == << balances, bankBalances, uploads, uniqueIndex, filenameIndex, req, last, call,
          result, input >>

\* -------------------------------------------------------- DuplicateCheckResult
\* similarity_percentage is kept in units of 1/10000 (so 1.0 is 10000 and
\* 100.0 is 1000000)
Unit == 10000

DuplicateCheckResult(dup, ctype, sim, rec, ex) ==
    [raised |-> FALSE, is_duplicate |-> dup, conflict_type |-> ctype,
     similarity_percentage |-> sim, recommendation |-> rec, existing |-> ex]

\* the call did not return: an exception reached the caller
Raised(what) ==
    [raised |-> TRUE, is_duplicate |-> FALSE, conflict_type |-> what,
     similarity_percentage |-> 0, recommendation |-> "", existing |-> 0]

NoResult == Raised("no_call")

\* thresholds of MonthlyDuplicateDetector.__init__, in units of 1/10000
similarity_threshold == 100
warning_threshold == 500

\* rows of the month bucket the investment check queries; exclude_id falsy
\* (None or 0) excludes nothing
MonthlyQuery(store, account_id, balance_date, exclude_id) ==
    {i \in 1..Len(store) :
        /\ store[i].account_id = account_id
        /\ store[i].balance_date.month = balance_date.month
        /\ (IsNone(exclude_id) \/ Val(exclude_id) = 0 \/ i # Val(exclude_id))}

\* similarity of _analyze_conflict: the zero branch yields the float 1.0 or
\* 0.0; the other branch evaluates float - Decimal, which Python rejects
\* with a TypeError
Similarity(existing_amount, new_amount) ==
    IF existing_amount = 0
    THEN [raised |-> FALSE, value |-> IF new_amount = 0 THEN Unit ELSE 0]
    ELSE [raised |-> TRUE, value |-> 0]

\* variant: the large-difference branch misspells its recommendation
AnalyzeConflictMisspelt(store, id, new_date, new_amount) ==
    LET existing == store[id]
        s == Similarity(existing.balance_amount, new_amount)
        similarity == s.value
        similarity_percentage == similarity * 100
    IN  IF s.raised THEN Raised("TypeError")
        ELSE IF existing.balance_date = new_date
        THEN IF similarity >= Unit - similarity_threshold
             THEN DuplicateCheckResult(TRUE, "exact_duplicate",
                      similarity_percentage, "block_save", id)
             ELSE DuplicateCheckResult(TRUE, "same_date_different_amount",
                      similarity_percentage, "require_confirmation", id)
        ELSE IF similarity >= Unit - similarity_threshold
             THEN DuplicateCheckResult(TRUE, "similar_monthly_balance",
                      similarity_percentage, "warn_user", id)
             ELSE IF similarity >= Unit - warning_threshold
             THEN DuplicateCheckResult(TRUE, "monthly_update",
                      similarity_percentage, "suggest_update", id)
             ELSE DuplicateCheckResult(TRUE, "monthly_large_difference",
                      similarity_percentage, "manual-review", id)

AnalyzeConflict(store, id, new_date, new_amount) ==
    LET existing == store[id]
        s == Similarity(existing.balance_amount, new_amount)
        similarity == s.value
        similarity_percentage == similarity * 100
    IN  IF s.raised THEN Raised("TypeError")
        ELSE IF existing.balance_date = new_date
        THEN IF similarity >= Unit - similarity_threshold
             THEN DuplicateCheckResult(TRUE, "exact_duplicate",
                      similarity_percentage, "block_save", id)
             ELSE DuplicateCheckResult(TRUE, "same_date_different_amount",
                      similarity_percentage, "require_confirmation", id)
        ELSE IF similarity >= Unit - similarity_threshold
             THEN DuplicateCheckResult(TRUE, "similar_monthly_balance",
                      similarity_percentage, "warn_user", id)
             ELSE IF similarity >= Unit - warning_threshold
             THEN DuplicateCheckResult(TRUE, "monthly_update",
                      similarity_percentage, "suggest_update", id)
             ELSE DuplicateCheckResult(TRUE, "monthly_large_difference",
                      similarity_percentage, "manual_review", id)

ErrorResult == DuplicateCheckResult(FALSE, "error", 0, "manual_review", 0)
SafeResult == DuplicateCheckResult(FALSE, "none", 0, "safe_to_save", 0)

\* check_monthly_duplicates.  dbFails: the storage query raises.  first: the
\* row the unordered query returns first (every row analysed is a conflict
\* or raises, so the loop never reaches a second row).
CheckMonthlyDuplicates(store, account_id, balance_date, balance_amount, exclude_id, dbFails, first) ==
    LET existing_balances ==
            MonthlyQuery(store, account_id, balance_date, exclude_id)
    IN  IF dbFails THEN ErrorResult
        ELSE IF existing_balances = {} THEN SafeResult
        ELSE LET conflict_result ==
                     AnalyzeConflict(store, first, balance_date, balance_amount)
             IN  IF conflict_result.raised THEN ErrorResult
                 ELSE conflict_result

\* the rows the query may return first
FirstChoices(store, account_id, balance_date, exclude_id) ==
    LET q == MonthlyQuery(store, account_id, balance_date, exclude_id)
    IN  IF q = {} THEN {0} ELSE q

\* check_filename_duplicates
\* variant: uploads whose processing failed are not looked at
FilenameQuerySkipsFailed(ups, filename) ==
    {i \in 1..Len(ups) : /\ ups[i].original_filename = filename
                         /\ ups[i].processing_status # "failed"}

FilenameQuery(ups, filename) ==
    {i \in 1..Len(ups) : ups[i].original_filename = filename}

CheckFilenameDuplicates(ups, filename, dbFails, first) ==
    IF dbFails THEN DuplicateCheckResult(FALSE, "error", 0, "manual_review", 0)
    ELSE IF FilenameQuery(ups, filename) # {}
    THEN DuplicateCheckResult(TRUE, "filename_duplicate", 0, "warn_user", first)
    ELSE DuplicateCheckResult(FALSE, "none", 0, "safe_to_save", 0)

FilenameFirstChoices(ups, filename) ==
    IF FilenameQuery(ups, filename) = {} THEN {0}
    ELSE FilenameQuery(ups, filename)

\* check_bank_monthly_duplicates
BankQuery(store, account_name, statement_month, exclude_id) ==
    {i \in 1..Len(store) :
        /\ store[i].account_name = account_name
        /\ store[i].statement_month = statement_month
        /\ (IsNone(exclude_id) \/ Val(exclude_id) = 0 \/ i # Val(exclude_id))}

\* 1.0 - abs(float(new - existing)) / float(existing), in units of 1/10000
BankSimilarity(existing_amount, new_amount) ==
    IF existing_amount = 0
    THEN (IF new_amount = 0 THEN Unit ELSE 0)
    ELSE ((existing_amount - Abs(new_amount - existing_amount)) * Unit)
             \div existing_amount

\* similarity >= pct/100, compared exactly: 1 - d/e >= p  <=>  d <= (1-p) * e
BankAtLeast(existing_amount, new_amount, pct) ==
    IF existing_amount = 0
    THEN BankSimilarity(existing_amount, new_amount) * 100 >= pct * Unit
    ELSE Abs(new_amount - existing_amount) * 100 <= (100 - pct) * existing_amount

CheckBankMonthlyDuplicates(store, account_name, statement_month, ending_balance, statement_date, exclude_id, dbFails, first) ==
    IF dbFails THEN Raised("storage_error")
    ELSE IF BankQuery(store, account_name, statement_month, exclude_id) = {}
    THEN DuplicateCheckResult(FALSE, "no_conflict", 0, "", 0)
    ELSE LET existing == store[first]
             existing_amount == existing.ending_balance
             new_amount == ending_balance
             similarity_percentage == BankSimilarity(existing_amount, new_amount)
         IN  IF existing.statement_date = statement_date
             THEN IF Abs(existing_amount - new_amount) <= 1
                  THEN DuplicateCheckResult(TRUE, "identical_bank_balance",
                           Unit, "auto_skip", first)
                  ELSE DuplicateCheckResult(TRUE, "same_date_different_amount",
                           similarity_percentage, "manual_review", first)
             ELSE IF BankAtLeast(existing_amount, new_amount, 99)
                  THEN DuplicateCheckResult(TRUE, "similar_bank_balance",
                           similarity_percentage, "suggest_update", first)
                  ELSE IF BankAtLeast(existing_amount, new_amount, 95)
                  THEN DuplicateCheckResult(TRUE, "bank_monthly_update",
                           similarity_percentage, "manual_review", first)
                  ELSE DuplicateCheckResult(TRUE, "bank_large_difference",
                           similarity_percentage, "manual_review", first)

BankFirstChoices(store, account_name, statement_month, exclude_id) ==
    LET q == BankQuery(store, account_name, statement_month, exclude_id)
    IN  IF q = {} THEN {0} ELSE q

\* --------------------------------------------------------------- requests
Slots == 1..MaxReq

\* a quick-save request between its duplicate check and its write; seen: how
\* many rows the table of balances had when the check queried it (rows are
\* only ever added)
IdleReq == [pc |-> "idle", sid |-> 0, passed |-> FALSE, seen |-> 0]

\* the response of the handler that finished last
\* what the upload handler was given for the statement: whether the extracted
\* text is empty, the page-extraction confidence, and what the parser and the
\* account matching returned (confidences in thousandths)
Given(empty, extraction_confidence, account, period_end, ending, confidence_score) ==
    [empty |-> empty, extraction_confidence |-> extraction_confidence,
     account |-> account, period_end |-> period_end, ending |-> ending,
     confidence_score |-> confidence_score]
NoGiven == Given(TRUE, 0, None, None, None, 0)

Response(op, wrote, checked, violated, outcome) ==
    [op |-> op, wrote |-> wrote, checked |-> checked, violated |-> violated,
     outcome |-> outcome, sid |-> 0, can_quick_save |-> FALSE,
     requires_review |-> FALSE, given |-> NoGiven]
NoResponse == Response("none", FALSE, FALSE, FALSE, "none")

\* no file or text is being processed
NoInput == [kind |-> "none"]

NoCall ==
    [kind |-> "none", account_id |-> 0, account_name |-> "",
     statement_month |-> 0, date |-> [month |-> 1, day |-> 1], amount |-> 0,
     filename |-> "", dbFails |-> FALSE, first |-> 0]

\* ------------------------------------------- the detector on its own
\* amounts of the rows already stored when a check is called
StoredAmounts == {0, 10000}

BalanceRows ==
    [account_id : Accounts, balance_date : Dates, balance_amount : StoredAmounts]

BankRow(name, d, amt) ==
    [account_name |-> name, statement_month |-> d.month, statement_date |-> d,
     ending_balance |-> amt]
BankRows == {BankRow(n, d, a) : n \in BankNames, d \in Dates, a \in StoredAmounts}

UploadRow(fn, st) ==
    [original_filename |-> fn, account_id |-> None, statement_date |-> None,
     extracted_balance |-> None, confidence_score |-> 0,
     processing_status |-> st, reviewed_by_user |-> FALSE]
StoredUploadRows == {UploadRow(fn, st) : fn \in Filenames, st \in {"processed", "failed", "saved"}}

SeqsUpTo(S, n) == UNION {[1..k -> S] : k \in 0..n}

\* bank_balances carries the unique index on (account_name, statement_month)
BankKeyUnique(store) ==
    \A i, j \in 1..Len(store) :
        (/\ store[i].account_name = store[j].account_name
         /\ store[i].statement_month = store[j].statement_month) => i = j

InitCheck ==
    /\ uniqueIndex = FALSE
    /\ filenameIndex = FALSE
    /\ req = [s \in Slots |-> IdleReq]
    /\ last = NoResponse
    /\ call = NoCall
    /\ result = NoResult
    /\ input = NoInput
    /\ \/ /\ balances \in SeqsUpTo(BalanceRows, MaxStore)
          /\ bankBalances = << >>
          /\ uploads = << >>
       \/ /\ balances = << >>
          /\ bankBalances \in {b \in SeqsUpTo(BankRows, MaxStore) : BankKeyUnique(b)}
          /\ uploads = << >>
       \/ /\ balances = << >>
          /\ bankBalances = << >>
          /\ uploads \in SeqsUpTo(StoredUploadRows, MaxUploads)

CallMonthly ==
    /\ call = NoCall
    /\ \E a \in Accounts, d \in Dates, amt \in Amounts, f \in BOOLEAN :
      \E first \in FirstChoices(balances, a, d, None) :
        /\ call' = [NoCall EXCEPT !.kind = "monthly", !.account_id = a,
                        !.date = d, !.amount = amt, !.dbFails = f,
                        !.first = first]
        /\ result' = CheckMonthlyDuplicates(balances, a, d, amt, None, f, first)
        /\ UNCHANGED << balances, bankBalances, uploads, uniqueIndex, filenameIndex, req, last, input >>

CallFilename ==
    /\ call = NoCall
    /\ \E fn \in Filenames, f \in BOOLEAN :
      \E first \in FilenameFirstChoices(uploads, fn) :
        /\ call' = [NoCall EXCEPT !.kind = "filename", !.filename = fn,
                        !.dbFails = f, !.first = first]
        /\ result' = CheckFilenameDuplicates(uploads, fn, f, first)
        /\ UNCHANGED << balances, bankBalances, uploads, uniqueIndex, filenameIndex, req, last, input >>

CallBank ==
    /\ call = NoCall
    /\ \E n \in BankNames, m \in Months, d \in Dates, amt \in Amounts,
       f \in BOOLEAN :
      \E first \in BankFirstChoices(bankBalances, n, m, None) :
        /\ call' = [NoCall EXCEPT !.kind = "bank", !.account_name = n,
                        !.statement_month = m, !.date = d, !.amount = amt,
                        !.dbFails = f, !.first = first]
        /\ result' = CheckBankMonthlyDuplicates(bankBalances, n, m, amt, d,
                                                None, f, first)
        /\ UNCHANGED << balances, bankBalances, uploads, uniqueIndex, filenameIndex, req, last, input >>

NextCheck == CallMonthly \/ CallFilename \/ CallBank

SpecCheck == InitCheck /\ [][NextCheck]_vars

\* ----------------------------------------------------------- the workflow
\* values the handlers are called with
WfDates == {[month |-> 1, day |-> 1], [month |-> 1, day |-> 2],
            [month |-> 2, day |-> 1]}
WfAmounts == {0, 10000}
WfAccounts == {1}
WfFilenames == {"a.pdf"}
\* what an upload is given in the workflow: a statement read well, one read
\* with a low page-extraction confidence, one with a zero ending balance, and
\* one whose text could not be extracted
WfGiven ==
    {Given(FALSE, 800, Some(1), Some([month |-> 1, day |-> 1]), Some(10000), 800),
     Given(FALSE, 300, Some(1), Some([month |-> 1, day |-> 1]), Some(10000), 800),
     Given(FALSE, 800, Some(1), Some([month |-> 1, day |-> 1]), Some(0), 800),
     Given(TRUE, 0, None, None, None, 0)}
Truthy(o) == ~IsNone(o) /\ Val(o) # 0

\* StatementUpload as save_statement_upload stores it: a falsy
\* extracted_balance (None or 0) is stored as NULL
StatementUpload(fn, account_id, statement_date, extracted_balance, conf, st) ==
    [original_filename |-> fn, account_id |-> account_id,
     statement_date |-> statement_date,
     extracted_balance |-> IF Truthy(extracted_balance)
                           THEN extracted_balance ELSE None,
     confidence_score |-> conf, processing_status |-> st,
     reviewed_by_user |-> FALSE]

PortfolioBalance(account_id, balance_date, balance_amount) ==
    [account_id |-> account_id, balance_date |-> balance_date,
     balance_amount |-> balance_amount]

\* save_balance always inserts; the insert fails when the unique index on
\* (account, balance_date) is present and already holds the key
ViolatesIndex(store, row) ==
    /\ uniqueIndex
    /\ \E i \in 1..Len(store) :
          /\ store[i].account_id = row.account_id
          /\ store[i].balance_date = row.balance_date

\* get_statement_upload
Found(sid) == sid \in 1..Len(uploads)

\* "not statement.account_id or not statement.extracted_balance or not
\* statement.statement_date"
Insufficient(u) ==
    \/ ~Truthy(u.account_id)
    \/ ~Truthy(u.extracted_balance)
    \/ IsNone(u.statement_date)

SidChoices == 1..(Len(uploads) + 1)

Init ==
    /\ balances = << >>
    /\ bankBalances = << >>
    /\ uploads = << >>
    /\ uniqueIndex \in BOOLEAN
    /\ filenameIndex \in BOOLEAN
    /\ req = [s \in Slots |-> IdleReq]
    /\ last = NoResponse
    /\ call = NoCall
    /\ result = NoResult
    /\ input = NoInput

\* thresholds of the upload handler, in thousandths
extraction_failure_threshold == 200
quick_save_threshold == 600
review_threshold == 700

\* "overall_confidence = (extraction_confidence + confidence_score) / 2"
OverallConfidence(g) == (g.extraction_confidence + g.confidence_score) \div 2

\* "can_quick_save": the response field of a processed upload
CanQuickSaveAnyBalance(g) ==
    /\ OverallConfidence(g) >= quick_save_threshold
    /\ ~IsNone(g.account)
    /\ ~IsNone(g.period_end)
CanQuickSave(g) ==
    /\ OverallConfidence(g) >= quick_save_threshold
    /\ ~IsNone(g.ending)
    /\ ~IsNone(g.account)
    /\ ~IsNone(g.period_end)

\* "requires_review": the response field of a processed upload
RequiresReview(g, duplicate_check) ==
    \/ OverallConfidence(g) < review_threshold
    \/ IsNone(g.account)
    \/ ~Truthy(g.ending)
    \/ /\ duplicate_check.is_duplicate
       /\ duplicate_check.recommendation # "auto_skip"

\* the monthly check of the upload handler: made when account, ending balance
\* and statement date are all truthy
UploadDuplicateChecks(g) ==
    IF ~IsNone(g.account) /\ Truthy(g.ending) /\ ~IsNone(g.period_end)
    THEN {CheckMonthlyDuplicates(balances, Val(g.account), Val(g.period_end),
                                 Val(g.ending), None, FALSE, first) :
            first \in FirstChoices(balances, Val(g.account),
                                   Val(g.period_end), None)}
    ELSE {DuplicateCheckResult(FALSE, "insufficient_data", 0, "safe_to_save", 0)}

\* upload_statement for a file named fn, given g
UploadStatementWith(fn, g) ==
    /\ Len(uploads) < MaxUploads
    /\ \E ffirst \in FilenameFirstChoices(uploads, fn) :
        LET filename_check == CheckFilenameDuplicates(uploads, fn, FALSE, ffirst)
            sid == Len(uploads) + 1
        IN  IF /\ filename_check.is_duplicate
               /\ filename_check.recommendation # "auto_skip"
            THEN IF filenameIndex
                 THEN \* the insert of the duplicate record fails and the id of
                      \* a stored record of that name is returned instead
                      /\ UNCHANGED uploads
                      /\ last' = [Response("upload", FALSE, FALSE, FALSE,
                                           "filename_duplicate")
                                  EXCEPT !.sid = ffirst, !.requires_review = TRUE,
                                         !.given = g]
                 ELSE /\ uploads' = Append(uploads,
                             StatementUpload(fn, None, None, None, 0, "duplicate"))
                      /\ last' = [Response("upload", FALSE, FALSE, FALSE,
                                           "filename_duplicate")
                                  EXCEPT !.sid = sid, !.requires_review = TRUE,
                                         !.given = g]
            ELSE IF g.empty \/ g.extraction_confidence < extraction_failure_threshold
            THEN /\ uploads' = Append(uploads,
                        StatementUpload(fn, None, None, None, 0, "failed"))
                 /\ last' = [Response("upload", FALSE, FALSE, FALSE, "ocr_failed")
                             EXCEPT !.sid = sid, !.requires_review = TRUE,
                                    !.given = g]
            ELSE \E duplicate_check \in UploadDuplicateChecks(g) :
                 /\ uploads' = Append(uploads,
                        StatementUpload(fn, g.account, g.period_end, g.ending,
                                        OverallConfidence(g), "processed"))
                 /\ last' = [Response("upload", FALSE, FALSE, FALSE, "processed")
                             EXCEPT !.sid = sid,
                                    !.can_quick_save = CanQuickSave(g),
                                    !.requires_review =
                                        RequiresReview(g, duplicate_check),
                                    !.given = g]
    /\ UNCHANGED << balances, bankBalances, uniqueIndex, filenameIndex, req, call, result, input >>

\* POST /statements/upload
UploadStatement == \E fn \in WfFilenames, g \in WfGiven : UploadStatementWith(fn, g)

\* the upload handler on its own, given every combination of found and
\* missing fields at confidences on both sides of the thresholds
UploadGiven ==
    {Given(FALSE, e, a, d, b, c) :
        e \in {400, 1000}, a \in {None, Some(1)},
        d \in {None, Some([month |-> 1, day |-> 1])},
        b \in {None, Some(0), Some(10000)}, c \in {798, 800}}
    \cup {Given(TRUE, 0, None, None, None, 0),
          Given(FALSE, 100, Some(1), Some([month |-> 1, day |-> 1]),
                Some(10000), 1000)}

UploadStatementGiven ==
    \E fn \in WfFilenames, g \in UploadGiven : UploadStatementWith(fn, g)

SpecUpload == Init /\ [][UploadStatementGiven]_vars

\* POST /statements/{id}/quick-save, up to the duplicate check.  Request
\* slots are interchangeable: a new request takes the lowest idle one.
QuickSaveCheck(s) ==
    /\ req[s].pc = "idle"
    /\ \A t \in Slots : t < s => req[t].pc # "idle"
    /\ \E sid \in SidChoices, confirm_duplicates \in BOOLEAN :
        IF ~Found(sid)
        THEN /\ last' = Response("quick_save", FALSE, FALSE, FALSE, "404")
             /\ UNCHANGED req
        ELSE IF Insufficient(uploads[sid])
        THEN /\ last' = Response("quick_save", FALSE, FALSE, FALSE, "400")
             /\ UNCHANGED req
        ELSE LET u == uploads[sid]
                 a == Val(u.account_id)
                 d == Val(u.statement_date)
             IN  \E first \in FirstChoices(balances, a, d, None) :
                 LET duplicate_result ==
                         CheckMonthlyDuplicates(balances, a, d,
                             Val(u.extracted_balance), None, FALSE, first)
                 IN  IF duplicate_result.is_duplicate /\ ~confirm_duplicates
                     THEN /\ last' = Response("quick_save", FALSE, TRUE, FALSE,
                                 IF duplicate_result.recommendation = "block_save"
                                 THEN "409" ELSE "requires_confirmation")
                          /\ UNCHANGED req
                     ELSE /\ req' = [req EXCEPT ![s] =
                                 [pc |-> "save", sid |-> sid,
                                  passed |-> ~duplicate_result.is_duplicate,
                                  seen |-> Len(balances)]]
                          /\ UNCHANGED last
    /\ UNCHANGED << balances, bankBalances, uploads, uniqueIndex, filenameIndex, call, result, input >>

\* quick-save from save_balance on: the insert, then the call of
\* mark_statement_processed, a method PortfolioRepository does not have
\* (AttributeError, answered with status 500)
QuickSaveWrite(s) ==
    /\ req[s].pc = "save"
    /\ LET u == uploads[req[s].sid]
           new_balance == PortfolioBalance(Val(u.account_id),
                              Val(u.statement_date), Val(u.extracted_balance))
       IN  IF ViolatesIndex(balances, new_balance)
           THEN /\ last' = Response(IF req[s].passed THEN "quick_save"
                                    ELSE "quick_save_confirmed",
                                    FALSE, TRUE, TRUE, "500")
                /\ UNCHANGED balances
           ELSE /\ Len(balances) < MaxStore
                /\ balances' = Append(balances, new_balance)
                /\ last' = [Response("quick_save", TRUE, TRUE, FALSE, "500")
                            EXCEPT !.sid = req[s].sid]
    /\ req' = [req EXCEPT ![s] = IdleReq]
    /\ UNCHANGED << bankBalances, uploads, uniqueIndex, filenameIndex, call, result, input >>

\* POST /statements/{id}/review: the duplicate check runs and its result only
\* goes into the response; save_balance and mark_statement_reviewed commit
\* one after the other (taken as one step: no handler reads
\* processing_status)
SaveReviewedStatement ==
    /\ \/ /\ last' = Response("review", FALSE, FALSE, FALSE, "404")
          /\ UNCHANGED << balances, uploads >>
       \/ \E sid \in 1..Len(uploads), account_id \in WfAccounts,
             balance_date \in WfDates, balance_amount \in WfAmounts :
            LET new_balance ==
                    PortfolioBalance(account_id, balance_date, balance_amount)
            IN  IF ViolatesIndex(balances, new_balance)
                THEN /\ last' = Response("review", FALSE, TRUE, TRUE, "500")
                     /\ UNCHANGED << balances, uploads >>
                ELSE /\ Len(balances) < MaxStore
                     /\ balances' = Append(balances, new_balance)
                     /\ uploads' = [uploads EXCEPT ![sid] =
                            [@ EXCEPT !.reviewed_by_user = TRUE,
                                      !.processing_status = "saved"]]
                     /\ last' = Response("review", TRUE, TRUE, FALSE, "success")
    /\ UNCHANGED << bankBalances, uniqueIndex, filenameIndex, req, call, result, input >>

\* POST /statements/{id}/resolve-conflict: every exception, the handler's own
\* HTTPExceptions included, is answered with status 500; skip and proceed both
\* end in the call of the missing mark_statement_processed
ResolveStatementConflict ==
    /\ \/ /\ last' = Response("resolve", FALSE, FALSE, FALSE, "500")
          /\ UNCHANGED balances
       \/ \E sid \in 1..Len(uploads) :
            /\ ~Insufficient(uploads[sid])
            /\ LET u == uploads[sid]
                   new_balance == PortfolioBalance(Val(u.account_id),
                                      Val(u.statement_date),
                                      Val(u.extracted_balance))
               IN  IF ViolatesIndex(balances, new_balance)
                   THEN /\ last' = Response("resolve", FALSE, FALSE, TRUE, "500")
                        /\ UNCHANGED balances
                   ELSE /\ Len(balances) < MaxStore
                        /\ balances' = Append(balances, new_balance)
                        /\ last' = Response("resolve", TRUE, FALSE, FALSE, "500")
    /\ UNCHANGED << bankBalances, uploads, uniqueIndex, filenameIndex, req, call, result, input >>

\* POST /statements/confirm: an unknown account raises 404 inside the try and
\* a known one reaches check_balance_exists, a method PortfolioRepository does
\* not have; both are answered with status 500 before any write
ConfirmStatementExtraction ==
    /\ last' = Response("confirm", FALSE, FALSE, FALSE, "500")
    /\ UNCHANGED << balances, bankBalances, uploads, uniqueIndex, filenameIndex, req, call,
                    result, input >>

\* POST /balances: as confirm, the write is never reached, with or without
\* force_override
AddManualBalance ==
    /\ last' = Response("manual", FALSE, FALSE, FALSE, "500")
    /\ UNCHANGED << balances, bankBalances, uploads, uniqueIndex, filenameIndex, req, call,
                    result, input >>

\* POST /bank-statements/upload: one of the early returns, or
\* bank_repo.save(bank_balance, allow_update=False), a keyword
\* BankBalanceRepository.save does not accept (TypeError, status 500)
UploadBankStatement ==
    /\ \E outcome \in {"not_saved", "500"} :
        last' = Response("upload_bank", FALSE, FALSE, FALSE, outcome)
    /\ UNCHANGED << balances, bankBalances, uploads, uniqueIndex, filenameIndex, req, call,
                    result, input >>

Next ==
    \/ UploadStatement
    \/ \E s \in Slots : QuickSaveCheck(s)
    \/ \E s \in Slots : QuickSaveWrite(s)
    \/ SaveReviewedStatement
    \/ ResolveStatementConflict
    \/ ConfirmStatementExtraction
    \/ AddManualBalance
    \/ UploadBankStatement

Spec == Init /\ [][Next]_vars

\* ------------------------------------------------ properties of the detector
\* the check that has been called read its table without a storage error
Answered(kind) == call.kind = kind /\ ~call.dbFails

\* "within pct percent", relative to the stored amount
WithinPct(existing_amount, new_amount, pct) ==
    Abs(existing_amount - new_amount) * 100 <= pct * existing_amount

\* stored portfolio rows of the account and month the monthly check was called for
SameBucket ==
    {i \in 1..Len(balances) :
        /\ balances[i].account_id = call.account_id
        /\ balances[i].balance_date.month = call.date.month}

\* C3: a new balance in the same account and calendar month as a stored one,
\* with amounts within 1% of each other, is reported with is_duplicate = true
C3_MonthBucketDuplicate ==
    (/\ Answered("monthly")
     /\ \E i \in SameBucket :
            WithinPct(balances[i].balance_amount, call.amount, 1))
    => (~result.raised /\ result.is_duplicate)

\* C4: a stored balance of the same account on the same exact date within one
\* cent of the new amount makes the monthly check recommend block_save
C4_ExactDuplicateBlocked ==
    (/\ Answered("monthly")
     /\ \E i \in SameBucket :
            /\ balances[i].balance_date = call.date
            /\ Abs(balances[i].balance_amount - call.amount) <= 1)
    => (~result.raised /\ result.recommendation = "block_save")

\* uploads recorded under the file name the filename check was called for
SameFilename ==
    {i \in 1..Len(uploads) : uploads[i].original_filename = call.filename}

\* C5: the filename check reports a duplicate with warn_user exactly when some
\* recorded upload has the same original filename, whatever that upload holds,
\* and safe_to_save otherwise
C5_FilenameCheck ==
    Answered("filename") =>
        /\ ~result.raised
        /\ IF SameFilename # {}
           THEN result.is_duplicate /\ result.recommendation = "warn_user"
           ELSE ~result.is_duplicate /\ result.recommendation = "safe_to_save"

C5_Witness ==
    /\ Answered("filename")
    /\ \E i \in SameFilename : uploads[i].processing_status = "failed"
    /\ result.is_duplicate
    /\ result.recommendation = "warn_user"

\* C6: a storage error during any of the three checks is not raised to the
\* caller but returned as conflict_type "error" with manual_review
C6_StorageErrorsReturned ==
    (call.kind # "none" /\ call.dbFails) =>
        /\ ~result.raised
        /\ result.conflict_type = "error"
        /\ result.recommendation = "manual_review"

SixRecommendations ==
    {"safe_to_save", "auto_skip", "suggest_update", "manual_review",
     "block_save", "warn_user"}

C9_Row(existing, new_date, new_amount) ==
    LET e == existing.balance_amount
        atLeast(pct) == IF e = 0 THEN new_amount = 0
                        ELSE WithinPct(e, new_amount, 100 - pct)
    IN  IF existing.balance_date = new_date
        THEN IF atLeast(99)
             THEN << "exact_duplicate", "block_save" >>
             ELSE << "same_date_different_amount", "require_confirmation" >>
        ELSE IF atLeast(99)
             THEN << "similar_monthly_balance", "warn_user" >>
             ELSE IF atLeast(95)
                  THEN << "monthly_update", "suggest_update" >>
                  ELSE << "monthly_large_difference", "manual_review" >>

\* C9: the investment check answers safe_to_save when the month bucket is
\* empty and otherwise by the decision table applied to a stored row
C9_InvestmentTable ==
    Answered("monthly") =>
        /\ ~result.raised
        /\ IF SameBucket = {}
           THEN ~result.is_duplicate /\ result.recommendation = "safe_to_save"
           ELSE \E i \in SameBucket :
                   /\ result.is_duplicate
                   /\ << result.conflict_type, result.recommendation >>
                        = C9_Row(balances[i], call.date, call.amount)

\* stored bank rows under the key the bank check was called for
SameBankKey ==
    {i \in 1..Len(bankBalances) :
        /\ bankBalances[i].account_name = call.account_name
        /\ bankBalances[i].statement_month = call.statement_month}

\* the recommendation the bank table gives against a stored row
C10_Row(existing, statement_date, new_amount) ==
    LET e == existing.ending_balance
        atLeast99 == IF e = 0 THEN new_amount = 0
                     ELSE WithinPct(e, new_amount, 1)
    IN  IF existing.statement_date = statement_date
        THEN IF Abs(e - new_amount) <= 1 THEN "auto_skip" ELSE "manual_review"
        ELSE IF atLeast99 THEN "suggest_update" ELSE "manual_review"

\* C10: the bank check answers by the bank decision table against a stored row
\* of the key, and with is_duplicate = false and safe_to_save when the key has
\* no record
C10_BankTableSafeToSave ==
    Answered("bank") =>
        /\ ~result.raised
        /\ IF SameBankKey = {}
           THEN ~result.is_duplicate /\ result.recommendation = "safe_to_save"
           ELSE \E i \in SameBankKey :
                   /\ result.is_duplicate
                   /\ result.recommendation
                        = C10_Row(bankBalances[i], call.date, call.amount)

\* C11: every result a check returns carries a similarity_percentage within
\* [0, 100] (0 to 100 * Unit here), for all non-negative amounts
C11_SimilarityRange ==
    (call.kind # "none" /\ ~result.raised) =>
        /\ 0 <= result.similarity_percentage
        /\ result.similarity_percentage <= 100 * Unit

\* ------------------------------------------------ properties of the workflow
\* C1: after any sequence of operations the balance store holds at most one
\* row per account and calendar month
C1_OneBalancePerMonth ==
    \A i, j \in 1..Len(balances) :
        (/\ balances[i].account_id = balances[j].account_id
         /\ balances[i].balance_date.month = balances[j].balance_date.month)
        => i = j

\* C2: an operation that has written a portfolio balance ran the monthly
\* duplicate check for that account and month before the write
C2_CheckBeforeWrite ==
    last.wrote => last.checked

C14_QuickSaveGatedByConfidence ==
    (last.op = "quick_save" /\ last.wrote) =>
        uploads[last.sid].confidence_score >= quick_save_threshold

\* C15: the can_quick_save flag of an upload that was not refused as a
\* filename duplicate is true exactly when the average of the page-extraction
\* confidence and the parser confidence is at least 0.6 and an ending balance,
\* a matched account and a statement date are all present
C15_CanQuickSaveFlag ==
    (last.op = "upload" /\ last.outcome # "filename_duplicate") =>
        (last.can_quick_save <=>
            /\ last.given.extraction_confidence + last.given.confidence_score
                   >= 2 * quick_save_threshold
            /\ last.given.ending # None
            /\ last.given.account # None
            /\ last.given.period_end # None)

\* an upload with a zero ending balance, a matched account and a date at
\* overall confidence exactly 0.6 was answered with can_quick_save
C15_Witness ==
    /\ last.op = "upload"
    /\ last.outcome = "processed"
    /\ last.given.ending = Some(0)
    /\ last.given.extraction_confidence = 400
    /\ last.given.confidence_score = 800
    /\ last.can_quick_save

\* C16: no step changes the processing_status of a StatementUpload that is
\* saved, skipped or duplicate
C16_TerminalStatusKept ==
    [][\A i \in 1..Len(uploads) :
          uploads[i].processing_status \in {"saved", "skipped", "duplicate"} =>
              uploads'[i].processing_status = uploads[i].processing_status]_vars

\* ------------------------------------------------------------ PDF processor
\* confidences and scores are in millionths: One is the float 1.0.  Quotients
\* are rounded down to a millionth.
One == 1000000

Min(a, b) == IF a <= b THEN a ELSE b
Max(a, b) == IF a >= b THEN a ELSE b

\* a text, by what the processor reads from it: its length, its length after
\* strip(), how many of the Wells Fargo summary keywords, of the transaction
\* page keywords, of the five general keywords and of the ten confidence
\* keywords it contains, how many currency amounts above 1000, currency
\* amounts and dates it shows, and how many characters outside
\* alphanumerics, whitespace and .,/$%-() it has
Text(len, strip, summary, txn, general, finkw, large, currency, dates, weird) ==
    [len |-> len, strip |-> strip, summary |-> summary, txn |-> txn,
     general |-> general, finkw |-> finkw, large |-> large,
     currency |-> currency, dates |-> dates, weird |-> weird]

EmptyText == Text(0, 0, 0, 0, 0, 0, 0, 0, 0, 0)
\* whitespace only
BlankText == Text(60, 0, 0, 0, 0, 0, 0, 0, 0, 0)
ShortText == Text(30, 30, 0, 0, 1, 2, 0, 1, 0, 0)
GarbageText == Text(200, 200, 0, 0, 0, 0, 0, 0, 0, 200)
SummaryText == Text(1200, 1200, 5, 0, 5, 10, 6, 8, 4, 10)
TxnText == Text(800, 800, 0, 5, 2, 3, 1, 12, 12, 0)

Texts == {EmptyText, BlankText, ShortText, GarbageText, SummaryText, TxnText}

\* _calculate_text_confidence: the multiplier of the method, in hundredths
MethodMultiplier(method) ==
    CASE method = "pdfplumber" -> 100
      [] method = "pypdf2" -> 85
      [] method = "ocr" -> 70
      [] OTHER -> 50

CalculateTextConfidence(text, method) ==
    IF text.len = 0 \/ text.strip < 10 THEN 0
    ELSE LET length_score ==
                 IF text.len >= 1000 THEN One ELSE text.len * (One \div 1000)
             keyword_score == Min(text.finkw * (One \div 10), One)
             pattern_score ==
                 Min((text.currency + text.dates) * (One \div 10), One)
             coherence_score == Max(0, One - (text.weird * One) \div text.len)
             base_confidence ==
                 (length_score + keyword_score + pattern_score
                     + coherence_score) \div 4
             final_confidence ==
                 (base_confidence * MethodMultiplier(method)) \div 100
         IN  Min(final_confidence, One)

\* variant: the final score is not capped at 1.0
ScorePageUncapped(text) ==
    IF text.len = 0 THEN 0
    ELSE LET summary_score == Min(text.summary * (One \div 5), One) * 2
             transaction_penalty == Min((text.txn * One) \div 3, One \div 2)
             keyword_score == Min(text.general * (One \div 5), One)
             currency_score == Min(text.large * (One \div 5), One)
             base_score ==
                 (summary_score + keyword_score + currency_score) \div 3
         IN  Max(0, base_score - transaction_penalty)

\* _score_page_for_financial_content
ScorePage(text) ==
    IF text.len = 0 THEN 0
    ELSE LET summary_score == Min(text.summary * (One \div 5), One) * 2
             transaction_penalty == Min((text.txn * One) \div 3, One \div 2)
             keyword_score == Min(text.general * (One \div 5), One)
             currency_score == Min(text.large * (One \div 5), One)
             base_score ==
                 (summary_score + keyword_score + currency_score) \div 3
             final_score == Max(0, base_score - transaction_penalty)
         IN  Min(final_score, One)

\* ---- the file at a path
MaxPages == 4
\* pages extract_with_page_detection analyses
pages_to_analyze == 3

\* what a page shows: a whitespace-only page, a summary page, a transaction
\* page, or nothing
PageTexts == {EmptyText, BlankText, SummaryText, TxnText}

\* a page: its text, and which of the text-layer readers find it ("none": an
\* image-only page that only OCR reads)
Pages ==
    {[text |-> EmptyText, layer |-> "none"],
     [text |-> BlankText, layer |-> "both"],
     [text |-> TxnText, layer |-> "both"]}
    \cup [text : {SummaryText}, layer : {"none", "pypdf2", "both"}]

\* a path: whether a file exists there, which libraries can open it, whether
\* PyMuPDF is installed, and the pages of the document.  A file none of the
\* libraries opens (an empty or corrupt file) has no pages; a document that
\* opens may have none either.
Files ==
    {f \in [exists : BOOLEAN, plumberOk : BOOLEAN, pypdf2Ok : BOOLEAN,
            fitzOk : BOOLEAN, HAS_PYMUPDF : BOOLEAN,
            pages : SeqsUpTo(Pages, MaxPages)] :
        /\ (~f.exists => ~f.plumberOk /\ ~f.pypdf2Ok /\ ~f.fitzOk)
        /\ (f.fitzOk => f.HAS_PYMUPDF)
        /\ (~f.plumberOk /\ ~f.pypdf2Ok /\ ~f.fitzOk) => f.pages = << >>
        /\ (~f.exists => ~f.HAS_PYMUPDF)}

PlumberText(pg) == IF pg.layer = "both" THEN pg.text ELSE EmptyText
PyPdf2Text(pg) == IF pg.layer \in {"both", "pypdf2"} THEN pg.text ELSE EmptyText
OcrText(pg) == pg.text

\* the texts a method reads from the pages, in page order
TextsRead(f, method) ==
    [i \in 1..Len(f.pages) |->
        CASE method = "pdfplumber" -> PlumberText(f.pages[i])
          [] method = "pypdf2" -> PyPdf2Text(f.pages[i])
          [] OTHER -> OcrText(f.pages[i])]

\* "\n".join of the parts "--- PAGE n ---\n<page text>\n" of the pages whose
\* text is kept: "if page_text" (stripped FALSE) or "if ocr_text.strip()"
RECURSIVE JoinFrom(_, _, _)
JoinFrom(texts, i, stripped) ==
    IF i > Len(texts) THEN EmptyText
    ELSE LET t == texts[i]
             rest == JoinFrom(texts, i + 1, stripped)
             keep == IF stripped THEN t.strip > 0 ELSE t.len > 0
         IN  IF ~keep THEN rest
             ELSE IF rest.len = 0
             THEN \* the last part: strip() removes its final newline, and
                  \* the whole of a whitespace-only page text
                  [t EXCEPT !.len = 15 + t.len + 1,
                            !.strip = IF t.strip = 0 THEN 14 ELSE 15 + t.len]
             ELSE Text(15 + t.len + 1 + 1 + rest.len,
                       15 + t.len + 1 + 1 + rest.strip,
                       Max(t.summary, rest.summary), Max(t.txn, rest.txn),
                       Max(t.general, rest.general), Max(t.finkw, rest.finkw),
                       t.large + rest.large, t.currency + rest.currency,
                       t.dates + rest.dates, t.weird + rest.weird)

\* the result of an extraction method or of extract_text
Extraction(text, confidence) ==
    [raised |-> FALSE, text |-> text, confidence |-> confidence]
NoExtraction == Extraction(EmptyText, 0)
\* FileNotFoundError reaches the caller
FileNotFound == [raised |-> TRUE, text |-> EmptyText, confidence |-> 0]

ExtractWithPdfplumber(f) ==
    IF ~f.plumberOk THEN NoExtraction
    ELSE LET full_text == JoinFrom(TextsRead(f, "pdfplumber"), 1, FALSE)
         IN  Extraction(full_text, CalculateTextConfidence(full_text, "pdfplumber"))

ExtractWithPypdf2(f) ==
    IF ~f.pypdf2Ok THEN NoExtraction
    ELSE LET full_text == JoinFrom(TextsRead(f, "pypdf2"), 1, FALSE)
         IN  Extraction(full_text,
                 (CalculateTextConfidence(full_text, "pypdf2") * 8) \div 10)

ExtractWithOcr(f) ==
    IF ~f.fitzOk THEN NoExtraction
    ELSE LET full_text == JoinFrom(TextsRead(f, "ocr"), 1, TRUE)
         IN  Extraction(full_text,
                 (CalculateTextConfidence(full_text, "ocr") * 6) \div 10)

\* "text and len(text.strip()) > 50"
Viable(t) == t.len > 0 /\ t.strip > 50

\* extract_text
ExtractText(f) ==
    IF ~f.exists THEN FileNotFound
    ELSE IF Viable(ExtractWithPdfplumber(f).text) THEN ExtractWithPdfplumber(f)
    ELSE IF Viable(ExtractWithPypdf2(f).text) THEN ExtractWithPypdf2(f)
    ELSE IF Viable(ExtractWithOcr(f).text) THEN ExtractWithOcr(f)
    ELSE NoExtraction

\* _get_page_count: any failure to open the file is answered with 1
GetPageCount(f) ==
    IF f.HAS_PYMUPDF
    THEN (IF f.fitzOk THEN Len(f.pages) ELSE 1)
    ELSE (IF f.pypdf2Ok THEN Len(f.pages) ELSE 1)

\* _extract_page_text, page_number counted from 1 here.  The whole body is one
\* try: a library that cannot open the file ends the attempt with ("", 0.0).
ExtractPageText(f, page_number) ==
    IF ~f.plumberOk THEN NoExtraction
    ELSE IF /\ page_number <= Len(f.pages)
            /\ Viable(PlumberText(f.pages[page_number]))
    THEN LET text == PlumberText(f.pages[page_number])
         IN  Extraction(text, CalculateTextConfidence(text, "pdfplumber"))
    ELSE IF ~f.pypdf2Ok THEN NoExtraction
    ELSE IF /\ page_number <= Len(f.pages)
            /\ Viable(PyPdf2Text(f.pages[page_number]))
    THEN LET text == PyPdf2Text(f.pages[page_number])
         IN  Extraction(text,
                 (CalculateTextConfidence(text, "pypdf2") * 8) \div 10)
    ELSE NoExtraction

\* total_score of a page: confidence * 0.3 + financial_score * 0.7
TotalScore(e) == (e.confidence * 3 + ScorePage(e.text) * 7) \div 10

PageResult(text, confidence, page, total_pages) ==
    [raised |-> FALSE, text |-> text, confidence |-> confidence,
     page |-> page, total_pages |-> total_pages]

\* variant: every page of the document is scanned
ExtractWithPageDetectionAllPages(f) ==
    IF ~f.exists THEN FileNotFound
    ELSE LET total_pages == GetPageCount(f)
             scanned == 1..total_pages
             page_scores ==
                 {n \in scanned : ExtractPageText(f, n).text.len > 0}
         IN  IF page_scores = {} THEN PageResult(EmptyText, 0, 1, total_pages)
             ELSE LET \* max() keeps the first page of the highest score
                      best_page ==
                          CHOOSE n \in page_scores :
                            \A m \in page_scores :
                              LET sn == TotalScore(ExtractPageText(f, n))
                                  sm == TotalScore(ExtractPageText(f, m))
                              IN  sm < sn \/ (sm = sn /\ n <= m)
                      best_data == ExtractPageText(f, best_page)
                  IN  PageResult(best_data.text, best_data.confidence,
                                 best_page, total_pages)

\* extract_with_page_detection
ExtractWithPageDetection(f) ==
    IF ~f.exists THEN FileNotFound
    ELSE LET total_pages == GetPageCount(f)
             scanned == 1..Min(pages_to_analyze, total_pages)
             page_scores ==
                 {n \in scanned : ExtractPageText(f, n).text.len > 0}
         IN  IF page_scores = {} THEN PageResult(EmptyText, 0, 1, total_pages)
             ELSE LET \* max() keeps the first page of the highest score
                      best_page ==
                          CHOOSE n \in page_scores :
                            \A m \in page_scores :
                              LET sn == TotalScore(ExtractPageText(f, n))
                                  sm == TotalScore(ExtractPageText(f, m))
                              IN  sm < sn \/ (sm = sn /\ n <= m)
                      best_data == ExtractPageText(f, best_page)
                  IN  PageResult(best_data.text, best_data.confidence,
                                 best_page, total_pages)

\* ---- the processor on its own
Methods == {"pdfplumber", "pypdf2", "ocr", "other"}

InitPdf ==
    /\ balances = << >>
    /\ bankBalances = << >>
    /\ uploads = << >>
    /\ uniqueIndex = FALSE
    /\ filenameIndex = FALSE
    /\ req = [s \in Slots |-> IdleReq]
    /\ last = NoResponse
    /\ call = NoCall
    /\ result = NoResult
    /\ \/ input \in {[kind |-> "pdf", file |-> f] : f \in Files}
       \/ input \in {[kind |-> "text", text |-> t, method |-> m] :
                        t \in Texts, m \in Methods}

CallExtractText ==
    /\ call = NoCall
    /\ input.kind = "pdf"
    /\ call' = [NoCall EXCEPT !.kind = "extract_text"]
    /\ result' = ExtractText(input.file)
    /\ UNCHANGED << balances, bankBalances, uploads, uniqueIndex, filenameIndex, req, last, input >>

CallPageDetection ==
    /\ call = NoCall
    /\ input.kind = "pdf"
    /\ call' = [NoCall EXCEPT !.kind = "page_detection"]
    /\ result' = ExtractWithPageDetection(input.file)
    /\ UNCHANGED << balances, bankBalances, uploads, uniqueIndex, filenameIndex, req, last, input >>

CallScorePage ==
    /\ call = NoCall
    /\ input.kind = "text"
    /\ call' = [NoCall EXCEPT !.kind = "score_page"]
    /\ result' = [raised |-> FALSE, score |-> ScorePage(input.text)]
    /\ UNCHANGED << balances, bankBalances, uploads, uniqueIndex, filenameIndex, req, last, input >>

CallTextConfidence ==
    /\ call = NoCall
    /\ input.kind = "text"
    /\ call' = [NoCall EXCEPT !.kind = "text_confidence"]
    /\ result' = [raised |-> FALSE,
                  score |-> CalculateTextConfidence(input.text, input.method)]
    /\ UNCHANGED << balances, bankBalances, uploads, uniqueIndex, filenameIndex, req, last, input >>

NextPdf ==
    \/ CallExtractText
    \/ CallPageDetection
    \/ CallScorePage
    \/ CallTextConfidence

SpecPdf == InitPdf /\ [][NextPdf]_vars

\* ---- page detection on five-page statements
\* first pages showing "statement period activity summary", "beginning
\* balance on" and "ending balance on" (so 'balance' and 'statement' of the
\* general keywords, and 'period' as well of the confidence keywords): short
\* or long, with or without transaction keywords, further general keywords and
\* large amounts
SummaryPageTexts ==
    {Text(l, l, 3, t, g, g + 1, a, a, 0, 0) :
        l \in {81, 1200}, t \in {0, 2}, g \in {2, 5}, a \in {0, 5}}

\* third pages showing "transaction history" and none of the summary phrases
HistoryPageTexts ==
    {Text(l, l, 0, t, g, 2 * g, a, a, IF l > 1000 THEN 12 ELSE 0, 0) :
        l \in {100, 2000}, t \in {1, 2}, g \in {0, 5}, a \in {0, 5}}

NoTextPage == [text |-> EmptyText, layer |-> "none"]

FivePageFiles ==
    {[exists |-> TRUE, plumberOk |-> TRUE, pypdf2Ok |-> TRUE, fitzOk |-> ok,
      HAS_PYMUPDF |-> TRUE,
      pages |-> << [text |-> t1, layer |-> y], NoTextPage,
                   [text |-> t3, layer |-> "both"], NoTextPage, NoTextPage >>] :
        ok \in BOOLEAN, t1 \in SummaryPageTexts, y \in {"both", "pypdf2"},
        t3 \in HistoryPageTexts}

InitPage ==
    /\ balances = << >>
    /\ bankBalances = << >>
    /\ uploads = << >>
    /\ uniqueIndex = FALSE
    /\ filenameIndex = FALSE
    /\ req = [s \in Slots |-> IdleReq]
    /\ last = NoResponse
    /\ call = NoCall
    /\ result = NoResult
    /\ input \in {[kind |-> "pdf", file |-> f] : f \in FivePageFiles}

SpecPage == InitPage /\ [][CallPageDetection]_vars

\* ---- the cascade of extract_text at the length threshold
\* page texts of 35 and 36 characters: alone in a document they make texts of
\* 50 and 51 trimmed characters ("--- PAGE 1 ---\n" has 15)
ThresholdTexts ==
    {Text(35, 35, 0, 0, 1, 2, 0, 1, 0, 0), Text(36, 36, 0, 0, 1, 2, 0, 1, 0, 0)}

ThresholdPages == [text : ThresholdTexts, layer : {"none", "pypdf2", "both"}]

\* documents of one or two such pages
ThresholdFiles ==
    {f \in [exists : {TRUE}, plumberOk : BOOLEAN, pypdf2Ok : BOOLEAN,
            fitzOk : BOOLEAN, HAS_PYMUPDF : BOOLEAN,
            pages : [1..1 -> ThresholdPages] \cup [1..2 -> ThresholdPages]] :
        f.fitzOk => f.HAS_PYMUPDF}

\* self.extraction_methods, by the names extract_text zips them with
extraction_methods == << "pdfplumber", "pypdf2", "ocr" >>

\* what a method of the list returns for a document
MethodResult(f, method_name) ==
    CASE method_name = "pdfplumber" -> ExtractWithPdfplumber(f)
      [] method_name = "pypdf2" -> ExtractWithPypdf2(f)
      [] OTHER -> ExtractWithOcr(f)

\* the methods the loop of extract_text calls, in the order of the calls: it
\* returns from inside the loop at the first viable text
RECURSIVE AttemptedFrom(_, _)
AttemptedFrom(f, i) ==
    IF i > Len(extraction_methods) THEN << >>
    ELSE IF Viable(MethodResult(f, extraction_methods[i]).text)
    THEN << extraction_methods[i] >>
    ELSE << extraction_methods[i] >> \o AttemptedFrom(f, i + 1)

InitCascade ==
    /\ balances = << >>
    /\ bankBalances = << >>
    /\ uploads = << >>
    /\ uniqueIndex = FALSE
    /\ filenameIndex = FALSE
    /\ req = [s \in Slots |-> IdleReq]
    /\ last = NoResponse
    /\ call = NoCall
    /\ result = NoResult
    /\ input \in {[kind |-> "pdf", file |-> f] : f \in ThresholdFiles}

\* extract_text, with the methods it called
CallExtractTextCascade ==
    /\ call = NoCall
    /\ input.kind = "pdf"
    /\ call' = [NoCall EXCEPT !.kind = "extract_text_cascade"]
    /\ result' = [raised |-> ExtractText(input.file).raised,
                  text |-> ExtractText(input.file).text,
                  confidence |-> ExtractText(input.file).confidence,
                  attempted |-> IF input.file.exists
                                THEN AttemptedFrom(input.file, 1) ELSE << >>]
    /\ UNCHANGED << balances, bankBalances, uploads, uniqueIndex, filenameIndex,
                    req, last, input >>

SpecCascade == InitCascade /\ [][CallExtractTextCascade]_vars

\* ---- extract_single_page_pdf
\* an output path: whether its directory exists or can be created, and
\* whether the file can be written there
OutputPaths == [dirOk : BOOLEAN, writeOk : BOOLEAN]

\* variant: the page number is not compared with the page count
ExtractSinglePagePdfUnchecked(f, page_number, output_path) ==
    IF f.HAS_PYMUPDF
    THEN f.fitzOk /\ output_path.dirOk /\ output_path.writeOk
    ELSE f.pypdf2Ok /\ output_path.dirOk /\ output_path.writeOk

\* extract_single_page_pdf, page_number counted from 1: TRUE when the page
\* was written; every exception (the file cannot be opened, os.makedirs or the
\* write fails) is caught and answered with False
ExtractSinglePagePdf(f, page_number, output_path) ==
    IF f.HAS_PYMUPDF
    THEN /\ f.fitzOk
         /\ page_number <= Len(f.pages)
         /\ output_path.dirOk
         /\ output_path.writeOk
    ELSE /\ f.pypdf2Ok
         /\ page_number <= Len(f.pages)
         /\ output_path.dirOk
         /\ output_path.writeOk

\* the documents it is applied to: the page contents play no part
SinglePageFiles ==
    {f \in Files : \A i \in 1..Len(f.pages) : f.pages[i] = NoTextPage}

InitSinglePage ==
    /\ balances = << >>
    /\ bankBalances = << >>
    /\ uploads = << >>
    /\ uniqueIndex = FALSE
    /\ filenameIndex = FALSE
    /\ req = [s \in Slots |-> IdleReq]
    /\ last = NoResponse
    /\ call = NoCall
    /\ result = NoResult
    /\ input \in {[kind |-> "pdf", file |-> f] : f \in SinglePageFiles}

CallExtractSinglePage ==
    /\ call = NoCall
    /\ \E page_number \in 1..(MaxPages + 1), output_path \in OutputPaths :
        /\ call' = [NoCall EXCEPT !.kind = "single_page"]
        /\ result' = [raised |-> FALSE,
                      ok |-> ExtractSinglePagePdf(input.file, page_number,
                                                  output_path),
                      page_number |-> page_number, output_path |-> output_path]
    /\ UNCHANGED << balances, bankBalances, uploads, uniqueIndex, filenameIndex,
                    req, last, input >>

SpecSinglePage == InitSinglePage /\ [][CallExtractSinglePage]_vars

\* --------------------------------------------- properties of the processor
\* no extraction method finds enough text in the file
NoViableText(f) ==
    /\ ~Viable(ExtractWithPdfplumber(f).text)
    /\ ~Viable(ExtractWithPypdf2(f).text)
    /\ ~Viable(ExtractWithOcr(f).text)

\* C12: extract_text never raises, and answers ("", 0.0) for a path with no
\* file, for an empty file, and whenever no method yields enough text
C12_ExtractTextDegrades ==
    call.kind = "extract_text" =>
        /\ ~result.raised
        /\ (~input.file.exists \/ input.file.pages = << >>
                \/ NoViableText(input.file))
           => (result.text = EmptyText /\ result.confidence = 0)

\* C13: extract_with_page_detection never raises, and when no scanned page
\* yields text it answers ("", 0.0, 1, total_pages) with the document's page
\* count
C13_PageDetectionDegrades ==
    call.kind = "page_detection" =>
        /\ ~result.raised
        /\ (\A n \in 1..Min(pages_to_analyze, Len(input.file.pages)) :
                ExtractPageText(input.file, n).text.len = 0)
           => /\ result.text = EmptyText
              /\ result.confidence = 0
              /\ result.page = 1
              /\ result.total_pages = Len(input.file.pages)

InUnitRange(x) == 0 <= x /\ x <= One

\* C20: the page relevance score lies in [0.0, 1.0], and so does the
\* extraction confidence of each of the three methods, for the whole
\* document and for a single page
C20_ScoresInUnitRange ==
    /\ call.kind \in {"score_page", "text_confidence"}
       => InUnitRange(result.score)
    /\ (call.kind \in {"extract_text", "page_detection"} /\ ~result.raised)
       => /\ InUnitRange(result.confidence)
          /\ InUnitRange(ScorePage(result.text))
          /\ InUnitRange(ExtractWithPdfplumber(input.file).confidence)
          /\ InUnitRange(ExtractWithPypdf2(input.file).confidence)
          /\ InUnitRange(ExtractWithOcr(input.file).confidence)
          /\ \A n \in 1..Len(input.file.pages) :
                InUnitRange(ExtractPageText(input.file, n).confidence)

\* a summary page, whose unclipped score is 4/3, is scored 1.0
C20_Witness ==
    /\ call.kind = "score_page"
    /\ input.text = SummaryText
    /\ result.score = One

\* C21: in a five-page document whose page 1 shows the three summary phrases
\* and whose page 3 shows "transaction history" and no summary phrase, page
\* detection selects page 1
C21_SummaryPageSelected ==
    call.kind = "page_detection" => (~result.raised /\ result.page = 1)

\* C22: extract_single_page_pdf does not raise, and answers False whenever
\* the page number exceeds the page count, the output directory cannot be
\* created or the write fails; no balance and no upload is stored by it
C22_SinglePageFailsClosed ==
    call.kind = "single_page" =>
        /\ ~result.raised
        /\ (\/ result.page_number > Len(input.file.pages)
            \/ ~result.output_path.dirOk
            \/ ~result.output_path.writeOk) => ~result.ok
        /\ balances = << >> /\ bankBalances = << >> /\ uploads = << >>

\* page 3 of a two-page document that opens was asked for, with a writable
\* output path, and the answer was False
C22_Witness ==
    /\ call.kind = "single_page"
    /\ input.file.fitzOk /\ input.file.pypdf2Ok
    /\ Len(input.file.pages) = 2
    /\ result.page_number = 3
    /\ result.output_path = [dirOk |-> TRUE, writeOk |-> TRUE]
    /\ ~result.ok

\* combined score of a page, in tenths of a millionth
CombinedScore(e) == 3 * e.confidence + 7 * ScorePage(e.text)

\* the scanned pages that yielded text, given the page count reported
YieldingPages(f, total_pages) ==
    {n \in 1..Min(3, total_pages) : ExtractPageText(f, n).text.len > 0}

\* C23 as stated, its last part: the page number returned by page detection
\* is always in 1..min(3, total_pages)
C23_PageAlwaysScanned ==
    (call.kind = "page_detection" /\ ~result.raised) =>
        result.page \in 1..Min(3, result.total_pages)

\* C23 amended: when one of the first min(3, total_pages) pages yields text,
\* page detection returns the text, confidence and number of the one among
\* them with the highest combined score 0.3 * confidence + 0.7 * relevance,
\* a number in 1..min(3, total_pages); when none does it returns page 1 with
\* no text and confidence 0
C23_BestScannedPage ==
    (call.kind = "page_detection" /\ ~result.raised) =>
        LET f == input.file
            yielding == YieldingPages(f, result.total_pages)
        IN  IF yielding = {}
            THEN /\ result.page = 1
                 /\ result.text = EmptyText
                 /\ result.confidence = 0
            ELSE /\ result.page \in yielding
                 /\ result.page \in 1..Min(3, result.total_pages)
                 /\ result.text = ExtractPageText(f, result.page).text
                 /\ result.confidence = ExtractPageText(f, result.page).confidence
                 /\ \A m \in yielding :
                       CombinedScore(ExtractPageText(f, m))
                           <= CombinedScore(ExtractPageText(f, result.page))

\* a four-page document whose summary page is the fourth: one of the three
\* transaction pages before it was returned
C23_Witness ==
    /\ call.kind = "page_detection"
    /\ ~result.raised
    /\ Len(input.file.pages) = 4
    /\ input.file.pages[4] = [text |-> SummaryText, layer |-> "both"]
    /\ \A n \in 1..3 : input.file.pages[n] = [text |-> TxnText, layer |-> "both"]
    /\ result.total_pages = 4
    /\ result.page = 1
    /\ result.text = TxnText


\* ---- C24
\* the cascade with a method winning when its trimmed text has at least
\* `least` characters: the methods called are the first ones of the list in
\* its order, every method called before the last one called fell short, and
\* the result is that of the first method reaching `least` characters, or
\* ("", 0.0) after all three when none does
CascadeWith(least) ==
    LET f == input.file
        n == Len(result.attempted)
        Reaches(i) == MethodResult(f, extraction_methods[i]).text.strip >= least
    IN  /\ ~result.raised
        /\ n \in 1..Len(extraction_methods)
        /\ \A i \in 1..n : result.attempted[i] = extraction_methods[i]
        /\ \A i \in 1..(n - 1) : ~Reaches(i)
        /\ IF \E i \in 1..Len(extraction_methods) : Reaches(i)
           THEN /\ Reaches(n)
                /\ result.text = MethodResult(f, extraction_methods[n]).text
                /\ result.confidence
                     = MethodResult(f, extraction_methods[n]).confidence
           ELSE /\ n = Len(extraction_methods)
                /\ result.text = EmptyText
                /\ result.confidence = 0

\* C24: extract_text tries pdfplumber, PyPDF2 and OCR in that order,
\* goes on to a later method only when every earlier one gave fewer than 50
\* trimmed characters or failed, and returns the result of the first method
\* giving at least 50 trimmed characters.
C24_FirstMethodWithAtLeast50 ==
    call.kind = "extract_text_cascade" => CascadeWith(50)


\* ---- C25
\* the average of the four signals of a text: length, keywords, patterns and
\* coherence
FourSignalAverage(text) ==
    LET length_score ==
            IF text.len >= 1000 THEN One ELSE text.len * (One \div 1000)
        keyword_score == Min(text.finkw * (One \div 10), One)
        pattern_score == Min((text.currency + text.dates) * (One \div 10), One)
        coherence_score == Max(0, One - (text.weird * One) \div text.len)
    IN  (length_score + keyword_score + pattern_score + coherence_score) \div 4

\* the multipliers the claim names, in hundredths
ClaimedMultiplier(method_name) ==
    CASE method_name = "pdfplumber" -> 100
      [] method_name = "pypdf2" -> 80
      [] OTHER -> 60

\* C25: the confidence extract_text returns with the text of a method is the
\* average of the four signals of that text multiplied once by the method's
\* multiplier (1.0 pdfplumber, 0.8 PyPDF2, 0.6 OCR) and clamped to [0, 1].
C25_ConfidenceMultipliedOnce ==
    (call.kind = "extract_text" /\ ~result.raised /\ result.text # EmptyText) =>
        LET attempted == AttemptedFrom(input.file, 1)
            method_name == attempted[Len(attempted)]
        IN  result.confidence
              = Max(0, Min((FourSignalAverage(result.text)
                              * ClaimedMultiplier(method_name)) \div 100, One))


\* --------------------------------------------------------- statement parser
\* the institutions in the order _detect_institution tests their markers
institution_checks ==
    << "wells_fargo", "wealthfront", "acorns", "robinhood", "schwab", "adp" >>
institution_extractors == {institution_checks[i] : i \in 1..Len(institution_checks)}

\* what parse_statement reads of a text: the institutions whose markers occur
\* in it, the date phrase ("single" for one date or a month, "range" for a
\* period with two dates), and the amounts behind a beginning-balance and an
\* ending-balance phrase (in cents)
StatementText(markers, period, beginning, ending) ==
    [markers |-> markers, period |-> period, beginning |-> beginning,
     ending |-> ending]

MarkerSets ==
    {{}} \cup {{i} : i \in institution_extractors}
         \cup {{"wells_fargo", "adp"}, {"wealthfront", "acorns"}}
PeriodPhrases == {"none", "single", "range"}
ParserAmounts == {None, Some(0), Some(10000)}
StatementTexts ==
    {StatementText(m, p, b, e) :
        m \in MarkerSets, p \in PeriodPhrases, b \in ParserAmounts,
        e \in ParserAmounts}

PeriodStart == [month |-> 1, day |-> 1]
PeriodEnd == [month |-> 1, day |-> 2]

StatementData(institution, account_type, statement_period_start, statement_period_end, beginning_balance, ending_balance, confidence_score, extraction_notes) ==
    [institution |-> institution, account_type |-> account_type,
     statement_period_start |-> statement_period_start,
     statement_period_end |-> statement_period_end,
     beginning_balance |-> beginning_balance, ending_balance |-> ending_balance,
     confidence_score |-> confidence_score,
     extraction_notes |-> extraction_notes]

\* the first institution of institution_checks one of whose markers is in the
\* text, 'unknown' when there is none
DetectInstitutionGuessing(text) ==
    LET hits == {i \in 1..Len(institution_checks) :
                    institution_checks[i] \in text.markers}
    IN  IF hits = {} THEN institution_checks[1]
        ELSE institution_checks[CHOOSE i \in hits : \A j \in hits : i <= j]
DetectInstitution(text) ==
    LET hits == {i \in 1..Len(institution_checks) :
                    institution_checks[i] \in text.markers}
    IN  IF hits = {} THEN "unknown"
        ELSE institution_checks[CHOOSE i \in hits : \A j \in hits : i <= j]

AccountType(institution) ==
    CASE institution = "wells_fargo" -> Some("Checking")
      [] institution = "adp" -> Some("401(k) Plan")
      [] institution = "acorns" -> Some("Base Investment Account")
      [] institution \in {"robinhood", "schwab"} -> Some("Brokerage Account")
      [] institution = "wealthfront" -> Some("Investment Account")

\* the statement period an extractor takes from the date phrase, with the note
\* it appends: Wells Fargo keeps one date and appends nothing; ADP, Robinhood
\* and Schwab match two-date periods only; Acorns and Wealthfront match a month
\* or a period
ExtractPeriod(institution, text) ==
    IF text.period = "none"
    THEN [start |-> None, end |-> None, notes |-> << >>]
    ELSE IF institution = "wells_fargo"
    THEN [start |-> None, end |-> Some(PeriodEnd), notes |-> << >>]
    ELSE IF text.period = "range"
    THEN [start |-> Some(PeriodStart), end |-> Some(PeriodEnd),
          notes |-> << "Found statement period" >>]
    ELSE IF institution \in {"acorns", "wealthfront"}
    THEN [start |-> None, end |-> Some(PeriodEnd),
          notes |-> << "Found statement month" >>]
    ELSE [start |-> None, end |-> None, notes |-> << >>]

\* the balances an extractor takes, with the notes it appends: Wells Fargo and
\* ADP look for a beginning and an ending balance, the others for one account
\* value
ExtractBalances(institution, text) ==
    LET both == institution \in {"wells_fargo", "adp"}
        beginning == IF both THEN text.beginning ELSE None
    IN  [beginning |-> beginning, ending |-> text.ending,
         notes |-> (IF IsNone(beginning) THEN << >>
                    ELSE << "Found beginning balance" >>)
                   \o (IF IsNone(text.ending) THEN << >>
                       ELSE IF both THEN << "Found ending balance" >>
                       ELSE << "Found account value" >>)]

\* self.institution_extractors[institution](cleaned_text)
Extract(institution, text) ==
    LET p == ExtractPeriod(institution, text)
        b == ExtractBalances(institution, text)
    IN  StatementData(institution, AccountType(institution), p.start, p.end,
                      b.beginning, b.ending, 0, p.notes \o b.notes)

\* confidences of the parser are in thousandths
unknown_confidence == 100

\* _calculate_confidence: the mean of five factors; a zero balance is falsy
CalculateConfidenceFourFactors(statement_data) ==
    LET d == statement_data
    IN  ( (IF d.institution # "unknown" THEN 800 ELSE 200)
        + (IF Truthy(d.beginning_balance) /\ Truthy(d.ending_balance) THEN 900
           ELSE IF Truthy(d.ending_balance) THEN 700 ELSE 300)
        + (IF ~IsNone(d.statement_period_start) /\ ~IsNone(d.statement_period_end)
           THEN 900
           ELSE IF ~IsNone(d.statement_period_end) THEN 700 ELSE 400)
        + (IF ~IsNone(d.account_type) THEN 800 ELSE 500) ) \div 4
CalculateConfidence(statement_data) ==
    LET d == statement_data
    IN  ( (IF d.institution # "unknown" THEN 800 ELSE 200)
        + (IF Truthy(d.beginning_balance) /\ Truthy(d.ending_balance) THEN 900
           ELSE IF Truthy(d.ending_balance) THEN 700 ELSE 300)
        + (IF ~IsNone(d.statement_period_start) /\ ~IsNone(d.statement_period_end)
           THEN 900
           ELSE IF ~IsNone(d.statement_period_end) THEN 700 ELSE 400)
        + (IF ~IsNone(d.account_type) THEN 800 ELSE 500)
        + (IF Len(d.extraction_notes) >= 3 THEN 900
           ELSE IF Len(d.extraction_notes) >= 2 THEN 800
           ELSE IF Len(d.extraction_notes) >= 1 THEN 600 ELSE 300) ) \div 5

ParseStatement(text) ==
    LET institution == DetectInstitution(text)
    IN  IF institution \notin institution_extractors
        THEN StatementData(institution, None, None, None, None, None,
                           unknown_confidence, << "Unknown institution" >>)
        ELSE LET statement_data == Extract(institution, text)
             IN  [statement_data EXCEPT
                     !.confidence_score = CalculateConfidence(statement_data)]

\* nothing parsed yet
NoData == StatementData("", None, None, None, None, None, 0, << >>)

\* the parser applied to a text and to a second text with the same markers
InitParse ==
    /\ balances = << >>
    /\ bankBalances = << >>
    /\ uploads = << >>
    /\ uniqueIndex = FALSE
    /\ filenameIndex = FALSE
    /\ req = [s \in Slots |-> IdleReq]
    /\ last = NoResponse
    /\ call = NoCall
    /\ result = [raised |-> FALSE, data |-> NoData, more |-> NoData]
    /\ input \in {i \in [kind : {"statement"}, text : StatementTexts,
                          more : StatementTexts] :
                    i.text.markers = i.more.markers}

CallParseStatement ==
    /\ result.data = NoData
    /\ result' = [result EXCEPT !.data = ParseStatement(input.text)]
    /\ UNCHANGED << balances, bankBalances, uploads, uniqueIndex, filenameIndex,
                    req, last, call, input >>

CallParseStatementMore ==
    /\ result.more = NoData
    /\ result' = [result EXCEPT !.more = ParseStatement(input.more)]
    /\ UNCHANGED << balances, bankBalances, uploads, uniqueIndex, filenameIndex,
                    req, last, call, input >>

NextParse == CallParseStatement \/ CallParseStatementMore

SpecParse == InitParse /\ [][NextParse]_vars

\* ---- institution detection, by the marker phrases
\* a text is the sequence of its words and punctuation marks; the markers of
\* an institution, in the order of its list in _detect_institution
specific_markers(institution) ==
    CASE institution = "wells_fargo" ->
          << << "wells", "fargo", "combined", "statement", "of", "accounts" >>,
             << "wells", "fargo", "everyday", "checking" >>,
             << "wells", "fargo", "platinum", "savings" >>,
             << "wells", "fargo", "bank", ",", "n", ".", "a", "." >>,
             << "wellsfargo", ".", "com" >>,
             << "statement", "period", "activity", "summary" >> >>
      [] institution = "wealthfront" ->
          << << "wealthfront", "brokerage", "llc" >>,
             << "wealthfront", "advisers" >>,
             << "monthly", "statement", "for", "march" >>,
             << "individual", "investment", "account" >>,
             << "wealthfront", ".", "com" >>,
             << "support", "@", "wealthfront", ".", "com" >>,
             << "wealthfront", "cash", "account" >>,
             << "investment", "account" >>,
             << "wealthfront", "savings" >>,
             << "cash", "account" >> >>
      [] institution = "acorns" ->
          << << "acorns", "securities", "llc" >>,
             << "acorns", "advisers", "llc" >>,
             << "base", "investment", "account" >>,
             << "acorns", ".", "com" >> >>
      [] institution = "robinhood" ->
          << << "robinhood", "securities", "llc" >>,
             << "robinhood", "financial", "llc" >>,
             << "help", "@", "robinhood", ".", "com" >>,
             << "robinhood", "gold" >> >>
      [] institution = "schwab" ->
          << << "charles", "schwab", "co", "inc" >>,
             << "schwab", "one", "account" >>,
             << "schwab", ".", "com", "/", "login" >>,
             << "member", "sipc", "schwab" >>,
             << "schwab", "representative" >> >>
      [] institution = "adp" ->
          << << "transaction", "and", "balance", "history" >>,
             << "transaction", "history", "by", "fund" >>,
             << "personal", "rate", "of", "return" >>,
             << "mykplan", ".", "adp", ".", "com" >>,
             << "modified", "dietz", "method" >> >>
      [] OTHER -> << >>

\* every marker phrase of the table
MarkerPhrases ==
    UNION {{specific_markers(institution)[k] :
                k \in 1..Len(specific_markers(institution))} :
            institution \in institution_extractors}

\* text.lower(), on the capitalised words of the texts below
Lower(word) ==
    CASE word = "Base" -> "base"
      [] word = "Investment" -> "investment"
      [] word = "Account" -> "account"
      [] word = "Acorns" -> "acorns"
      [] word = "Securities" -> "securities"
      [] word = "LLC" -> "llc"
      [] OTHER -> word

TextLower(text) == [k \in 1..Len(text) |-> Lower(text[k])]

\* "marker in text_lower"
MarkerIn(marker, text_lower) ==
    \E k \in 0..(Len(text_lower) - Len(marker)) :
        SubSeq(text_lower, k + 1, k + Len(marker)) = marker

\* _detect_institution: the first institution of institution_checks with a
\* marker in the lower-cased text
DetectInstitutionByMarker(text) ==
    LET text_lower == TextLower(text)
        hits == {i \in 1..Len(institution_checks) :
                    \E k \in 1..Len(specific_markers(institution_checks[i])) :
                        MarkerIn(specific_markers(institution_checks[i])[k],
                                 text_lower)}
    IN  IF hits = {} THEN "unknown"
        ELSE institution_checks[CHOOSE i \in hits : \A j \in hits : i <= j]

\* the texts detection is applied to: nothing, one marker phrase, two marker
\* phrases one after the other, and two capitalised phrases
DetectTexts ==
    {<< >>} \cup MarkerPhrases
    \cup {a \o b : a \in MarkerPhrases, b \in MarkerPhrases}
    \cup {<< "Base", "Investment", "Account" >>,
          << "Acorns", "Securities", "LLC" >>}

InitDetect ==
    /\ balances = << >>
    /\ bankBalances = << >>
    /\ uploads = << >>
    /\ uniqueIndex = FALSE
    /\ filenameIndex = FALSE
    /\ req = [s \in Slots |-> IdleReq]
    /\ last = NoResponse
    /\ call = NoCall
    /\ result = NoResult
    /\ input \in {[kind |-> "text", text |-> t] : t \in DetectTexts}

CallDetectInstitution ==
    /\ call = NoCall
    /\ call' = [NoCall EXCEPT !.kind = "detect_institution"]
    /\ result' = [raised |-> FALSE,
                  institution |-> DetectInstitutionByMarker(input.text)]
    /\ UNCHANGED << balances, bankBalances, uploads, uniqueIndex, filenameIndex,
                    req, last, input >>

SpecDetect == InitDetect /\ [][CallDetectInstitution]_vars

\* the mean of the five sub-factors of a returned StatementData, from its
\* fields
FiveFactorMean(d) ==
    LET institution == IF d.institution = "unknown" THEN 200 ELSE 800
        balances_found == IF Truthy(d.beginning_balance) /\ Truthy(d.ending_balance)
                          THEN 900
                          ELSE IF Truthy(d.ending_balance) THEN 700 ELSE 300
        dates_found == IF d.statement_period_start # None /\ d.statement_period_end # None
                       THEN 900
                       ELSE IF d.statement_period_end # None THEN 700 ELSE 400
        account_type == IF d.account_type # None THEN 800 ELSE 500
        n == Len(d.extraction_notes)
        notes == IF n >= 3 THEN 900 ELSE IF n = 2 THEN 800
                 ELSE IF n = 1 THEN 600 ELSE 300
    IN  (institution + balances_found + dates_found + account_type + notes) \div 5

\* C17 as stated: the confidence_score of every StatementData that
\* parse_statement returns is the mean of the five sub-factors computed from
\* the returned fields
C17_AlwaysFiveFactorMean ==
    result.data # NoData => result.data.confidence_score = FiveFactorMean(result.data)

\* C17 amended: the confidence_score of a returned StatementData is the mean
\* of the five sub-factors when an institution was detected, and 0.1 when the
\* institution is unknown
C17_FiveFactorMeanUnlessUnknown ==
    result.data # NoData =>
        result.data.confidence_score =
            IF result.data.institution = "unknown" THEN unknown_confidence
            ELSE FiveFactorMean(result.data)

\* an ADP statement with period, beginning and ending balance parsed to 0.86
C17_Witness ==
    /\ result.data.institution = "adp"
    /\ result.data.beginning_balance = Some(10000)
    /\ result.data.ending_balance = Some(10000)
    /\ result.data.statement_period_start = Some(PeriodStart)
    /\ Len(result.data.extraction_notes) = 3
    /\ result.data.confidence_score = 860

\* C18: a text without any institution marker parses to institution
\* "unknown" with confidence 0.1, no account type, no date, no balance and
\* exactly one extraction note, whatever else the text contains
C18_UnknownInstitution ==
    (result.data # NoData /\ input.text.markers = {}) =>
        /\ result.data.institution = "unknown"
        /\ result.data.confidence_score = unknown_confidence
        /\ result.data.account_type = None
        /\ result.data.statement_period_start = None
        /\ result.data.statement_period_end = None
        /\ result.data.beginning_balance = None
        /\ result.data.ending_balance = None
        /\ Len(result.data.extraction_notes) = 1

\* a text with a period and both balances but no marker has been parsed
C18_Witness ==
    /\ input.text = StatementText({}, "range", Some(10000), Some(10000))
    /\ result.data.institution = "unknown"

\* the fields an extractor matched, and the notes it wrote
MatchedFields(d) ==
    {f \in {"account_type", "statement_period_start", "statement_period_end",
            "beginning_balance", "ending_balance"} : d[f] # None}
    \cup {d.extraction_notes[i] : i \in 1..Len(d.extraction_notes)}

\* C19: of two parses for the same institution where the matched fields and
\* notes of one are among those of the other, the one that matched more has a
\* confidence that is not lower
C19_ConfidenceMonotone ==
    (/\ result.data # NoData
     /\ result.more # NoData
     /\ result.data.institution = result.more.institution
     /\ MatchedFields(result.data) \subseteq MatchedFields(result.more)) =>
        result.data.confidence_score <= result.more.confidence_score

\* ---- C26
\* how many of two optional fields were found
FoundOf(a, b) == (IF IsNone(a) THEN 0 ELSE 1) + (IF IsNone(b) THEN 0 ELSE 1)

\* the five factors by the table of the claim, in thousandths
FactorTable(d) ==
    LET institution == IF d.institution = "unknown" THEN 200 ELSE 800
        both_balances == FoundOf(d.beginning_balance, d.ending_balance)
        balance_factor == IF both_balances = 2 THEN 900
                          ELSE IF both_balances = 1 THEN 700 ELSE 300
        both_dates == FoundOf(d.statement_period_start, d.statement_period_end)
        date_factor == IF both_dates = 2 THEN 900
                       ELSE IF both_dates = 1 THEN 700 ELSE 400
        account_type == IF IsNone(d.account_type) THEN 500 ELSE 800
        n == Len(d.extraction_notes)
        notes == IF n >= 3 THEN 900 ELSE IF n = 2 THEN 800
                 ELSE IF n = 1 THEN 600 ELSE 300
    IN  (institution + balance_factor + date_factor + account_type + notes) \div 5

\* C26: for a known institution the confidence parse_statement returns is the
\* average of the five factors of the table: institution 0.8; balances 0.9 for
\* both, 0.7 for exactly one of beginning and ending, 0.3 for none; dates 0.9
\* for both, 0.7 for one, 0.4 for none; account type 0.8 when present, else
\* 0.5; notes 0.9 for three or more, 0.8 for two, 0.6 for one, 0.3 for none.
C26_FactorTable ==
    (result.data # NoData /\ result.data.institution # "unknown") =>
        result.data.confidence_score = FactorTable(result.data)

\* ---- C27
\* the stored balances for which the monthly check is to answer block_save
\* when called with the account, date and balance of an upload: the same
\* account, the same exact date, similarity at least 1 - similarity_threshold
BlockSaveRows(store, u) ==
    {i \in 1..Len(store) :
        /\ store[i].account_id = Val(u.account_id)
        /\ store[i].balance_date = Val(u.statement_date)
        /\ WithinPct(store[i].balance_amount, Val(u.extracted_balance), 1)}

C28_QuickSaveAllOrNothing ==
    last.op \in {"quick_save", "quick_save_confirmed"} =>
        /\ last.outcome \in {"400", "404", "409", "500"} => ~last.wrote
        /\ last.wrote => uploads[last.sid].processing_status # "processed"

\* ---- C29
\* C29: an upload answered with can_quick_save = true has stored a
\* StatementUpload whose account_id, extracted_balance and statement_date are
\* all set, so that quick-save does not refuse it for insufficient extracted
\* data (for every parsed ending balance, 0.00 included).
C29_QuickSavableIsSufficient ==
    (last.op = "upload" /\ last.can_quick_save) =>
        /\ Found(last.sid)
        /\ ~IsNone(uploads[last.sid].account_id)
        /\ ~IsNone(uploads[last.sid].extracted_balance)
        /\ ~IsNone(uploads[last.sid].statement_date)
        /\ ~Insufficient(uploads[last.sid])

\* ---- C30
\* C30: every marker phrase is attributed to the institution it is listed
\* under: a text that is the marker alone is detected as that institution, so
\* that no marker is shadowed by a marker of an institution checked earlier.
C30_NoMarkerShadowed ==
    call.kind = "detect_institution" =>
        \A institution \in institution_extractors :
            \A k \in 1..Len(specific_markers(institution)) :
                input.text = specific_markers(institution)[k] =>
                    result.institution = institution

====
